---------------------------- MODULE Spec2Model ----------------------------
(***************************************************************************)
(* A model of the Go SMTP verifier (SMTPVerifier.Verify and the functions  *)
(* it calls) as a state machine.  Each caller is one goroutine running one *)
(* Verify call; the Redis keys are the shared state.  Every access to      *)
(* Redis, every dial, every SMTP exchange and every timed wait is one      *)
(* atomic step, so that the interleavings of concurrent callers are those  *)
(* the program has.                                                        *)
(*                                                                         *)
(* Time passes in ticks of 1/TicksPerSecond seconds.  Computation is       *)
(* instantaneous: time passes only while no caller has a step to take.     *)
(* No absolute time is kept: the clock is its position within the current  *)
(* second, a stored instant is kept as its age, and a timer as the ticks   *)
(* it still has to run.  Confidence values are in hundredths (0.98 is 98). *)
(***************************************************************************)
EXTENDS Integers, Sequences, FiniteSets, TLC

\* ------------------------------------------------------------------ bounds

NumCallers == 2
TicksPerSecond == 2
\* how many transport failures (a failed dial, a session that fails before
\* RCPT is answered) and how many cancellations the environment produces
MaxFaults == 1
MaxCancels == 1
MaxProbeCount == 4
\* the transport failures of a run with a single call
MaxSoloFaults == 6
\* the largest reply code given to the classifier
MaxReplyCode == 599
\* the records of a DNS answer given to the sort, and their priorities
MaxMXCount == 4
MaxPriority == 3
\* the addresses of a batch request
MaxBatch == 2
\* the addresses of a batch request to the Node server, and the tasks given
\* to scheduleDomainTask for one domain
NumNodeCalls == 2
MaxTasks == 3
\* the addresses of the UI's input that pass the client-side check, the calls
\* of processQueue that run at a time, and the fresh starts
MaxItems == 2
MaxLoops == 2
MaxRuns == 2
\* the longest string given to the syntax check
MaxAddressLen == 6
\* the transport failures of a call that is run twice for comparison
MaxPairFaults == 1

Callers == 1..NumCallers

\* --------------------------------------------------- configuration (Config)

MaxConcurrentPerDomain == 1
MaxConcurrentPerMX == 1
DomainRateLimit == 1 * TicksPerSecond
MaxRetries == 3
RetryBackoff == 2 * TicksPerSecond
RetryBackoffFactor == 2
EnableCatchAllDetection == TRUE
CatchAllProbeCount == 2
CatchAllProbeDelay == TicksPerSecond \div 2

\* ------------------------------------------------------------- characters

LowerLetters ==
    {"a","b","c","d","e","f","g","h","i","j","k","l","m",
     "n","o","p","q","r","s","t","u","v","w","x","y","z"}
UpperLetters ==
    {"A","B","C","D","E","F","G","H","I","J","K","L","M",
     "N","O","P","Q","R","S","T","U","V","W","X","Y","Z"}
Digits == {"0","1","2","3","4","5","6","7","8","9"}
Letters == LowerLetters \cup UpperLetters
LocalChars == Letters \cup Digits \cup {".", "_", "%", "+", "-"}
DomainChars == Letters \cup Digits \cup {".", "-"}

\* strings.ToLower on one character (the inputs use only these capitals)
LowerChar(ch) ==
    CASE ch = "A" -> "a"
      [] ch = "B" -> "b"
      [] ch = "D" -> "d"
      [] OTHER -> ch

ToLower(s) == [i \in 1..Len(s) |-> LowerChar(s[i])]

RECURSIVE TrimLeft(_)
TrimLeft(s) ==
    IF s # <<>> /\ Head(s) = " " THEN TrimLeft(Tail(s)) ELSE s

RECURSIVE TrimRight(_)
TrimRight(s) ==
    IF s # <<>> /\ s[Len(s)] = " " THEN TrimRight(SubSeq(s, 1, Len(s) - 1)) ELSE s

TrimSpace(s) == TrimRight(TrimLeft(s))

\* email = strings.ToLower(strings.TrimSpace(email))
Normalize(raw) == ToLower(TrimSpace(raw))

\* hashEmail: SHA-256 of the lowercased address, taken as collision free
hashEmail(email) == <<"sha256", ToLower(email)>>

AllIn(s, lo, hi, set) == \A k \in lo..hi : s[k] \in set

\* emailRegex: ^[a-zA-Z0-9._%+\-]+@[a-zA-Z0-9.\-]+\.[a-zA-Z]{2,}$
emailRegex(s) ==
    \E i \in 1..Len(s), j \in 1..Len(s) :
        /\ s[i] = "@"
        /\ i > 1
        /\ AllIn(s, 1, i - 1, LocalChars)
        /\ j > i + 1
        /\ s[j] = "."
        /\ AllIn(s, i + 1, j - 1, DomainChars)
        /\ Len(s) - j >= 2
        /\ AllIn(s, j + 1, Len(s), Letters)

\* isValidEmailSyntax without the regular expression
isValidEmailSyntax_LengthOnly(email) == Len(email) <= 320

isValidEmailSyntax(email) == emailRegex(email) /\ Len(email) <= 320

\* strings.Split(email, "@"): the number of parts is the number of "@" plus one
AtPositions(s) == {i \in 1..Len(s) : s[i] = "@"}
SplitParts(s) == Cardinality(AtPositions(s)) + 1
DomainOf(s) ==
    LET i == CHOOSE k \in AtPositions(s) : TRUE
    IN  SubSeq(s, i + 1, Len(s))

\* ----------------------------------------------------------------- inputs

AddrA == <<"a", "@", "d", ".", "c", "o">>
AddrB == <<"b", "@", "d", ".", "c", "o">>
AddrARaw == <<" ", "A", "@", "D", ".", "c", "o">>
AddrBad == <<"a", " ", "d">>
Inputs == {AddrA, AddrB, AddrARaw, AddrBad}

\* The two well-formed addresses are interchangeable, so the first caller
\* never needs the second one.
InputsOf(c) == IF c = 1 THEN Inputs \ {AddrB} ELSE Inputs

TheDomain == <<"d", ".", "c", "o">>
Domains == {TheDomain}

\* what net.LookupMX answers for the domain, in the order DNS gave it
DNSAnswer ==
    << [Host |-> <<"m", "2", ".">>, Pref |-> 20],
       [Host |-> <<"m", "1", ".">>, Pref |-> 10] >>

\* strings.TrimSuffix(host, ".")
\* net.LookupMX without records to use: an error ("no such host", a
\* timeout) or an answer with no MX record
DNSFailures == {"nxdomain", "timeout", "empty"}

TrimSuffixDot(host) ==
    IF host # <<>> /\ host[Len(host)] = "." THEN SubSeq(host, 1, Len(host) - 1) ELSE host

\* getMXRecords: the records built from the DNS answer, before sorting
RecordsOf(mxs) ==
    [i \in 1..Len(mxs) |-> [Exchange |-> TrimSuffixDot(mxs[i].Host), Priority |-> mxs[i].Pref]]

MXHosts == {TrimSuffixDot(DNSAnswer[i].Host) : i \in 1..Len(DNSAnswer)}
NoConn == <<>>


\* ------------------------------------------------------------ sortMXRecords

Swap(recs, i, j) ==
    [recs EXCEPT ![i] = recs[j], ![j] = recs[i]]

\* a single comparison in place of the inner loop over j
SortInner_OneComparison(recs, i, j) ==
    IF j > Len(recs) THEN recs
    ELSE IF recs[i].Priority > recs[j].Priority THEN Swap(recs, i, j) ELSE recs

\* sortMXRecords, lines 414-419: the loop over j for one i
RECURSIVE SortInner(_, _, _)
SortInner(recs, i, j) ==
    IF j > Len(recs) THEN recs
    ELSE IF recs[i].Priority > recs[j].Priority
         THEN SortInner(Swap(recs, i, j), i, j + 1)
         ELSE SortInner(recs, i, j + 1)

RECURSIVE SortOuter(_, _)
SortOuter(recs, i) ==
    IF i > Len(recs) - 1 THEN recs
    ELSE SortOuter(SortInner(recs, i, i + 1), i + 1)

sortMXRecords(recs) == SortOuter(recs, 1)

\* ----------------------------------------------------------------- verdicts

StatusValid == "valid"
StatusInvalid == "invalid"
StatusCatchAll == "catch-all"
StatusUnknown == "unknown"
StatusRisky == "risky"

\* createResult; the wall-clock fields (ValidationTimeMs, CheckedAt) and the
\* response text are left out
createResult(email, emailHash, domain, status, reason, confidence, smtpCode, mxHost, mxRecords) ==
    [Email |-> email, EmailHash |-> emailHash, Domain |-> domain,
     Status |-> status, Reason |-> reason, Confidence |-> confidence,
     SMTPCode |-> smtpCode, MXHost |-> mxHost, MXRecords |-> mxRecords,
     IsCatchAll |-> FALSE, IsDisposable |-> FALSE]

NoVerdict == createResult(<<>>, <<>>, <<>>, "none", "", 0, 0, <<>>, <<>>)

\* classifySMTPResponse: <<status, reason, confidence>>
classifySMTPResponse(code) ==
    CASE code = 250 \/ code = 251 -> <<StatusValid, "mailbox_exists", 98>>
      [] code = 550 \/ code = 551 \/ code = 553 -> <<StatusInvalid, "mailbox_not_found", 95>>
      [] code = 450 \/ code = 451 \/ code = 452 -> <<StatusUnknown, "temporary_failure", 30>>
      [] code = 421 -> <<StatusUnknown, "rate_limited", 20>>
      [] code >= 500 -> <<StatusInvalid, "smtp_error_" \o ToString(code), 70>>
      [] OTHER -> <<StatusUnknown, "unknown_response", 10>>

\* Errors are named by their cause: "nil" is no error; "ctx" is
\* context.Canceled / context.DeadlineExceeded; "timeout" and "refused" are
\* network errors whose text holds "timeout" / "connection refused";
\* "unreachable" and "reply" (a banner, EHLO or MAIL FROM step answered with
\* an error reply, wrapped as "<step> failed: ...") hold neither.
DialErrors == {"refused", "unreachable"}
ExchangeErrors == {"timeout", "reply"}
RcptReplies == {250, 550, 554, 450, 421}

\* isRetryableError: parseSMTPError finds no code at the start of a wrapped
\* error text, so only the context errors and the keyword matches are left
isRetryableError(err) == err \in {"ctx", "timeout", "refused"}

\* the delay slept before the retry that follows attempt number `attempt`
Backoff(attempt) == RetryBackoff * (attempt + 1) * RetryBackoffFactor

\* detectCatchAll, line 362: a probe counts when it was answered 250 or 251
ProbeAccepted(code) == code = 250 \/ code = 251

\* detectCatchAll, line 371: the judgement from the number of accepted probes
CatchAllJudgement(acceptCount, probeCount) == acceptCount >= (probeCount \div 2)

\* time.Now().Format(time.RFC3339), read back with time.Parse: the instant cut
\* to whole seconds, which lies `subSecond` ticks before the instant written.
\* A stored instant is [age: ticks since it was written, cut: ticks cut off].
FormatRFC3339(subSecond) == [age |-> 0, cut |-> subSecond]
\* time.Since of a stored instant
Since(stored) == stored.age + stored.cut
\* a stored instant one tick later; `keep` is the age at which it is dropped
Older(stored, keep) ==
    IF stored.age < 0 THEN stored
    ELSE IF stored.age + 1 >= keep THEN [age |-> -1, cut |-> 0]
    ELSE [stored EXCEPT !.age = @ + 1]

\* json.Marshal / json.Unmarshal of a ValidationResult: the fields tagged
\* omitempty are left out when zero and read back as zero
OmitEmpty(v) ==
    {f \in {"SMTPCode"} : v[f] = 0}
        \cup {f \in {"MXHost", "MXRecords"} : v[f] = <<>>}
Marshal(v) == [f \in (DOMAIN v) \ OmitEmpty(v) |-> v[f]]
ZeroOf(f) == IF f = "SMTPCode" THEN 0 ELSE <<>>
Unmarshal(j) ==
    [f \in DOMAIN NoVerdict |-> IF f \in DOMAIN j THEN j[f] ELSE ZeroOf(f)]
NoEntry == Marshal(NoVerdict)

\* -------------------------------------------------------------------- state

VARIABLES
    now,            \* the clock's position within the current second, in ticks
    g,              \* per caller: the Verify call's position and locals
    h,              \* per caller: what the call has done so far (history)
    resultCache,    \* Redis validation:result:<hash>
    mxCache,        \* Redis mx:records:<domain>
    catchAllCache,  \* Redis domain:catchall:<domain>: "", "0" or "1"
    rateKey,        \* Redis ratelimit:domain:<domain>:last
    disposable,     \* the domains whose domain:meta entry says is_disposable
    probeLog,       \* per domain: the age of the last target session's start
    budget,         \* the failures and cancellations the environment has left
    redisUp,        \* whether Redis answers during this run
    det,            \* one run of detectCatchAll's probe loop, on its own
    cls,            \* one application of classifySMTPResponse, on its own
    srt,            \* one run of getMXRecords' sort of a DNS answer, on its own
    batch,          \* one request to handleBatchValidate, served by caller 1
    ses,            \* one SMTP session of smtpHandshake, from the open connection on
    obs,            \* the answers of DNS and of the SMTP peers, recorded or replayed when comparing two calls
    syn,            \* one application of isValidEmailSyntax, on its own
    req,            \* per caller: a request to handleValidate and where its answer came from
    node,           \* the Node server: its maps, its calls of smartVerify and its promise chains
    ui              \* the UI: the state of App and its running calls of processQueue

\* the state outside the Verify calls
\* the side specifications' own state
sides == <<det, cls, srt, batch, ses, syn, req, node, ui>>

others == <<det, cls, srt, batch, ses, syn, req, node, ui, obs>>

vars == <<now, g, h, resultCache, mxCache, catchAllCache, rateKey, disposable,
          probeLog, budget, redisUp, det, cls, srt, batch, ses, obs, syn, req, node, ui>>

Hashes == {hashEmail(Normalize(raw)) : raw \in Inputs}

NoKey == [age |-> -1, cut |-> 0]

\* no target session to the domain in the recent past.  `cool` is, after a
\* 421 reply, the ticks until more than the base interval has passed.
NoProbe == [age |-> -1, tooClose |-> FALSE, cool |-> 0]

\* the transport failure of an attempt, in the call's history
Failed(hc) == IF hc.smtp = "" THEN [smtp |-> "errors"] ELSE [smtp |-> hc.smtp]

\* the RCPT reply of MX number mxIdx, in the call's history
Replied(hc, mxIdx, code) ==
    [smtp |-> "reply",
     decidedAt |-> IF hc.decidedAt = 0
                      /\ classifySMTPResponse(code)[1] \in {StatusValid, StatusInvalid}
                      /\ classifySMTPResponse(code)[2] \in {"mailbox_exists", "mailbox_not_found"}
                   THEN mxIdx ELSE hc.decidedAt]

InitCall ==
    [pc |-> "idle", email |-> <<>>, emailHash |-> <<>>, domain |-> <<>>,
     ctxDone |-> FALSE, mxRecords |-> <<>>, mxIdx |-> 0, attempt |-> 0,
     smtpCode |-> 0, probeIdx |-> 0, acceptCount |-> 0, wait |-> 0,
     conn |-> NoConn, mxResult |-> NoVerdict, pending |-> NoVerdict,
     result |-> NoVerdict, err |-> "none"]

InitHistory ==
    [startedAfter |-> {}, startedWith |-> {}, cancelledAt |-> "",
     openedConn |-> FALSE, catchAllPositive |-> FALSE, catchAllKnown |-> FALSE,
     dnsOutcome |-> "", smtp |-> "", decidedAt |-> 0,
     wroteResult |-> FALSE, wroteCatchAll |-> FALSE]

InitShared ==
    /\ now = 0
    /\ g = [c \in Callers |-> InitCall]
    /\ h = [c \in Callers |-> InitHistory]
    /\ resultCache = [k \in Hashes |-> NoEntry]
    /\ mxCache = [d \in Domains |-> <<>>]
    /\ catchAllCache = [d \in Domains |-> ""]
    /\ rateKey = [d \in Domains |-> NoKey]
    /\ disposable \in SUBSET Domains
    /\ probeLog = [d \in Domains |-> NoProbe]

\* NumCallers calls, few failures, Redis reachable
InitVerifier ==
    /\ InitShared
    /\ budget = [calls |-> NumCallers, faults |-> MaxFaults, cancels |-> MaxCancels]
    /\ redisUp = TRUE

DetIdle ==
    [pc |-> "idle", probeCount |-> CatchAllProbeCount, replies |-> <<>>,
     acceptCount |-> 0, isCatchAll |-> FALSE, recorded |-> ""]

ClsIdle == [pc |-> "idle", code |-> 0, out |-> <<>>]

SrtIdle == [pc |-> "idle", answer |-> <<>>, records |-> <<>>]

BatchIdle == [pc |-> "idle", emails |-> <<>>, i |-> 0, results |-> <<>>]

SynIdle == [pc |-> "idle", email |-> <<>>, valid |-> FALSE]

ReqNone ==
    [c \in Callers |-> [pc |-> "none", skipCache |-> FALSE, fromCache |-> FALSE, code |-> 0]]

ObsOff == [mode |-> "off", tape |-> <<>>, overrun |-> FALSE]

SesIdle ==
    [pc |-> "idle", sent |-> <<>>, ext |-> FALSE, tls |-> "off", code |-> 0,
     err |-> "nil", closed |-> FALSE]

NodeCalls == 1..NumNodeCalls
NodeDomains == {"x", "y"}

NodeIdle ==
    [call |-> [c \in NodeCalls |-> [pc |-> "idle", domain |-> "", reason |-> ""]],
     dnsCache |-> [d \in NodeDomains |-> "unset"],
     domainStatus |-> [d \in NodeDomains |-> "unset"],
     domainQueues |-> [d \in NodeDomains |-> <<>>],
     sinceSettled |-> [d \in NodeDomains |-> 0],
     probes |-> [d \in NodeDomains |-> 0],
     replied |-> FALSE,
     mode |-> "off"]

UIIdle ==
    [processingState |-> "IDLE", progress |-> [current |-> 0, total |-> 0],
     pending |-> {}, stopProcessing |-> FALSE, runs |-> 0,
     loop |-> [l \in 1..MaxLoops |-> [active |-> FALSE, completedCount |-> 0, items |-> <<>>]]]

Init ==
    /\ InitVerifier
    /\ det = DetIdle
    /\ cls = ClsIdle
    /\ srt = SrtIdle
    /\ batch = BatchIdle
    /\ ses = SesIdle
    /\ obs = ObsOff
    /\ syn = SynIdle
    /\ req = ReqNone
    /\ node = NodeIdle
    /\ ui = UIIdle

InFlight(c) == g[c].pc \notin {"idle", "done"}

\* A Redis command fails when Redis is unreachable, and one issued with a
\* context that is already done fails before it is sent (the client checks
\* the context when it takes a connection).
RedisOK(c) == redisUp /\ ~g[c].ctxDone

Step(c, upd) == g' = [g EXCEPT ![c] = upd @@ g[c]]
Note(c, upd) == h' = [h EXCEPT ![c] = upd @@ h[c]]

CurrentMX(s) == s.mxRecords[s.mxIdx]

\* ------------------------------------------------ the control flow of Verify

\* Verify returning performSMTPVerification's error to its caller instead of
\* the verdict of line 182
NextMX_ErrReturned(s, err) ==
    IF s.mxIdx < Len(s.mxRecords)
    THEN [pc |-> "rate_get", mxIdx |-> s.mxIdx + 1, attempt |-> 0]
    ELSE IF err # "nil"
         THEN [pc |-> "done", mxRecords |-> <<>>, mxIdx |-> 0, attempt |-> 0,
               err |-> err, result |-> NoVerdict]
         ELSE [pc |-> "cache_set",
               pending |-> createResult(s.email, s.emailHash, s.domain, StatusUnknown,
                                        "all_mx_failed", 20, 0, <<>>, s.mxRecords)]

\* performSMTPVerification, after one MX gave no deciding result: the next MX,
\* or the result "all_mx_failed" with the last MX's error, which Verify turns
\* into "smtp_error: ..." (not cached) when that error is not nil
NextMX(s, err) ==
    IF s.mxIdx < Len(s.mxRecords)
    THEN [pc |-> "rate_get", mxIdx |-> s.mxIdx + 1, attempt |-> 0]
    ELSE IF err # "nil"
         THEN [pc |-> "done", mxRecords |-> <<>>, mxIdx |-> 0, attempt |-> 0,
               err |-> "nil",
               result |-> createResult(s.email, s.emailHash, s.domain, StatusUnknown,
                                       "smtp_error: " \o err, 20, 0, <<>>, s.mxRecords)]
         ELSE [pc |-> "cache_set",
               pending |-> createResult(s.email, s.emailHash, s.domain, StatusUnknown,
                                        "all_mx_failed", 20, 0, <<>>, s.mxRecords)]

\* performSMTPVerification returning only on a valid result, line 205 without
\* "|| result.Status == StatusInvalid"
FinishMX_OnlyValidReturns(s, res) ==
    [smtpCode |-> 0, probeIdx |-> 0, acceptCount |-> 0, mxResult |-> res]
        @@ (IF res.Status = StatusValid
            THEN [pc |-> "cache_set", pending |-> res]
            ELSE NextMX(s, "nil"))

\* performSMTPVerification on the result of verifySMTPWithMX
FinishMX(s, res) ==
    [smtpCode |-> 0, probeIdx |-> 0, acceptCount |-> 0, mxResult |-> res]
        @@ (IF res.Status = StatusValid \/ res.Status = StatusInvalid
            THEN [pc |-> "cache_set", pending |-> res]
            ELSE NextMX(s, "nil"))

\* verifySMTPWithMX, the retry loop after smtpHandshake returned an error
AttemptFailed(s, err) ==
    IF ~isRetryableError(err) THEN NextMX(s, err)
    ELSE IF s.attempt < MaxRetries - 1
         THEN [pc |-> "backoff", wait |-> Backoff(s.attempt)]
         ELSE NextMX(s, err)

\* verifySMTPWithMX without line 270, "result.IsCatchAll = isCatchAll"
MXResult_FlagDropped(s, code, isCatchAll) ==
    LET cl == classifySMTPResponse(code)
        status == IF isCatchAll THEN StatusCatchAll ELSE cl[1]
        reason == IF isCatchAll THEN "catch_all_domain" ELSE cl[2]
        confidence == IF isCatchAll THEN 50 ELSE cl[3]
    IN  createResult(s.email, s.emailHash, s.domain, status, reason, confidence,
                     code, CurrentMX(s).Exchange, <<CurrentMX(s)>>)

\* verifySMTPWithMX, from the classification to the result
MXResult(s, code, isCatchAll) ==
    LET cl == classifySMTPResponse(code)
        status == IF isCatchAll THEN StatusCatchAll ELSE cl[1]
        reason == IF isCatchAll THEN "catch_all_domain" ELSE cl[2]
        confidence == IF isCatchAll THEN 50 ELSE cl[3]
        r == createResult(s.email, s.emailHash, s.domain, status, reason, confidence,
                          code, CurrentMX(s).Exchange, <<CurrentMX(s)>>)
    IN  [r EXCEPT !.IsCatchAll = isCatchAll]

\* ------------------------------------------------------------------ actions

\* the environment answers a call at position `at` (DNS, a dial, an SMTP
\* exchange) with `answer`: any answer in general; when two calls are
\* compared, the first call's answers are recorded and the second call is
\* given the same answers in the same order
Answer(at, answer) ==
    IF obs.mode = "record"
    THEN obs' = [obs EXCEPT !.tape = Append(@, <<at, answer>>)]
    ELSE IF obs.mode = "replay"
    THEN IF obs.tape = <<>>
         THEN obs' = [obs EXCEPT !.overrun = TRUE]
         ELSE /\ <<at, answer>> = Head(obs.tape)
              /\ obs' = [obs EXCEPT !.tape = Tail(@)]
    ELSE UNCHANGED obs

\* Verify, lines 141-165: normalise, hash, getCachedResult, syntax check
Call(c, raw) ==
    /\ g[c].pc = "idle"
    /\ LET email == Normalize(raw)
           emailHash == hashEmail(email)
           cached == resultCache[emailHash]
           me == [email |-> email, emailHash |-> emailHash]
       IN  IF RedisOK(c) /\ cached # NoEntry
           THEN Step(c, [pc |-> "done", result |-> Unmarshal(cached),
                         err |-> "nil"] @@ me)
           ELSE IF ~isValidEmailSyntax(email)
           THEN Step(c, [pc |-> "done", err |-> "nil",
                         result |-> createResult(email, emailHash, <<>>, StatusInvalid,
                                                 "syntax_error", 100, 0, <<>>, <<>>)] @@ me)
           ELSE IF SplitParts(email) # 2
           THEN Step(c, [pc |-> "done", err |-> "nil",
                         result |-> createResult(email, emailHash, <<>>, StatusInvalid,
                                                 "invalid_format", 100, 0, <<>>, <<>>)] @@ me)
           ELSE Step(c, [pc |-> "mx_lookup", domain |-> DomainOf(email)] @@ me)
    /\ Note(c, [startedAfter |-> {d \in Callers : g[d].pc = "done"},
                startedWith |-> {d \in Callers : InFlight(d)},
                catchAllKnown |-> \E d \in Domains :
                                     /\ isValidEmailSyntax(Normalize(raw))
                                     /\ SplitParts(Normalize(raw)) = 2
                                     /\ d = DomainOf(Normalize(raw))
                                     /\ catchAllCache[d] = "1"])

\* a caller calls Verify
Start(c) ==
    \E raw \in InputsOf(c) :
        /\ budget.calls > 0
        /\ budget' = [budget EXCEPT !.calls = @ - 1]
        /\ Call(c, raw)
        /\ UNCHANGED <<now, resultCache, mxCache, catchAllCache, rateKey, disposable, probeLog, redisUp, others>>

\* getMXRecords, lines 384-387: getCachedMXRecords
LookupMXCache(c) ==
    /\ g[c].pc = "mx_lookup"
    /\ LET cached == mxCache[g[c].domain]
       IN  IF RedisOK(c) /\ Len(cached) > 0
           THEN Step(c, [pc |-> "meta", mxRecords |-> cached])
           ELSE Step(c, [pc |-> "dns"])
    /\ UNCHANGED <<now, h, resultCache, mxCache, catchAllCache, rateKey, disposable, probeLog, budget, redisUp, others>>

\* getMXRecords, lines 389-409, and Verify, lines 169-171: net.LookupMX
\* answers with an error or with the domain's records
DNSReply(c) ==
    /\ g[c].pc = "dns"
    /\ \/ \E outcome \in DNSFailures :
              /\ Step(c, [pc |-> "done", err |-> "nil",
                          result |-> createResult(g[c].email, g[c].emailHash, g[c].domain,
                                                  StatusInvalid, "no_mx_records", 95, 0,
                                                  <<>>, <<>>)])
              /\ Note(c, [dnsOutcome |-> outcome])
              /\ Answer("dns", outcome)
              /\ UNCHANGED mxCache
       \/ LET records == sortMXRecords(RecordsOf(DNSAnswer))
          IN  /\ mxCache' = IF RedisOK(c)
                            THEN [mxCache EXCEPT ![g[c].domain] = records]
                            ELSE mxCache
              /\ Step(c, [pc |-> "meta", mxRecords |-> records])
              /\ UNCHANGED h
              /\ Answer("dns", "records")
    /\ UNCHANGED <<now, resultCache, catchAllCache, rateKey, disposable, probeLog, budget, redisUp, sides>>

\* Verify, lines 173-177: getDomainMetadata and the disposable check
GetDomainMeta(c) ==
    /\ g[c].pc = "meta"
    /\ IF RedisOK(c) /\ g[c].domain \in disposable
       THEN Step(c, [pc |-> "done", err |-> "nil",
                     result |-> createResult(g[c].email, g[c].emailHash, g[c].domain,
                                             StatusRisky, "disposable_domain", 90, 0, <<>>,
                                             g[c].mxRecords)])
       ELSE Step(c, [pc |-> "rate_get", mxIdx |-> 1, attempt |-> 0])
    /\ UNCHANGED <<now, h, resultCache, mxCache, catchAllCache, rateKey, disposable, probeLog, budget, redisUp, others>>

\* waitForRateLimit, lines 519-532: read the key and decide how long to wait
RateGet(c) ==
    /\ g[c].pc = "rate_get"
    /\ LET lastCheck == rateKey[g[c].domain]
           elapsed == Since(lastCheck)
       IN  IF RedisOK(c) /\ lastCheck # NoKey /\ elapsed < DomainRateLimit
           THEN Step(c, [pc |-> "rate_wait", wait |-> DomainRateLimit - elapsed,
                         mxResult |-> NoVerdict])
           ELSE Step(c, [pc |-> "rate_set", mxResult |-> NoVerdict])
    /\ UNCHANGED <<now, h, resultCache, mxCache, catchAllCache, rateKey, disposable, probeLog, budget, redisUp, others>>

\* waitForRateLimit, line 527: the timer fired
RateWake(c) ==
    /\ g[c].pc = "rate_wait"
    /\ g[c].wait = 0
    /\ Step(c, [pc |-> "rate_set"])
    /\ UNCHANGED <<now, h, resultCache, mxCache, catchAllCache, rateKey, disposable, probeLog, budget, redisUp, others>>

\* waitForRateLimit, lines 528-529, then verifySMTPWithMX, lines 220-222
RateCancelled(c) ==
    /\ g[c].pc = "rate_wait"
    /\ g[c].ctxDone
    /\ Step(c, NextMX(g[c], "ctx"))
    /\ UNCHANGED <<now, h, resultCache, mxCache, catchAllCache, rateKey, disposable, probeLog, budget, redisUp, others>>

\* waitForRateLimit, lines 534-537: write the time of this check
RateSet(c) ==
    /\ g[c].pc = "rate_set"
    /\ rateKey' = IF RedisOK(c)
                  THEN [rateKey EXCEPT ![g[c].domain] = FormatRFC3339(now)]
                  ELSE rateKey
    /\ Step(c, [pc |-> "dial"])
    /\ UNCHANGED <<now, h, resultCache, mxCache, catchAllCache, disposable, probeLog, budget, redisUp, others>>

\* smtpHandshake, lines 278-286: DialContext.  A context that is done fails
\* the dial at once; otherwise the peer accepts or the dial fails.
Dial(c) ==
    /\ g[c].pc = "dial"
    /\ IF g[c].ctxDone
       THEN /\ Step(c, AttemptFailed(g[c], "ctx"))
            /\ UNCHANGED <<h, probeLog, budget, obs>>
       ELSE \/ /\ Step(c, [pc |-> "exchange", conn |-> CurrentMX(g[c]).Exchange])
               /\ UNCHANGED budget
               /\ Answer("dial", "connected")
               /\ Note(c, [openedConn |-> TRUE])
               /\ LET log == probeLog[g[c].domain]
                  IN  probeLog' = [probeLog EXCEPT ![g[c].domain] =
                          [age |-> 0,
                           tooClose |-> log.tooClose
                               \/ (log.age >= 0 /\ log.age < DomainRateLimit),
                           cool |-> 0]]
            \/ \E err \in DialErrors :
                   /\ budget.faults > 0
                   /\ budget' = [budget EXCEPT !.faults = @ - 1]
                   /\ Step(c, AttemptFailed(g[c], err))
                   /\ Answer("dial", err)
                   /\ Note(c, Failed(h[c]))
                   /\ UNCHANGED probeLog
    /\ UNCHANGED <<now, resultCache, mxCache, catchAllCache, rateKey, disposable, redisUp, sides>>

\* smtpHandshake, lines 288-338, on the open connection, and verifySMTPWithMX,
\* lines 231-260: a step before RCPT fails with an error, or RCPT is answered
\* with a reply code; the connection is closed on return
Exchange(c) ==
    /\ g[c].pc = "exchange"
    /\ \/ \E err \in ExchangeErrors :
              /\ budget.faults > 0
              /\ budget' = [budget EXCEPT !.faults = @ - 1]
              /\ Step(c, [conn |-> NoConn] @@ AttemptFailed(g[c], err))
              /\ Answer("exchange", err)
              /\ Note(c, Failed(h[c]))
              /\ UNCHANGED probeLog
       \/ \E code \in RcptReplies :
              /\ UNCHANGED budget
              /\ Answer("exchange", ToString(code))
              /\ Note(c, Replied(h[c], g[c].mxIdx, code))
              /\ probeLog' = [probeLog EXCEPT ![g[c].domain].cool =
                                  IF code = 421 THEN DomainRateLimit + 1 ELSE @]
              /\ IF classifySMTPResponse(code)[1] = StatusValid /\ EnableCatchAllDetection
                 THEN Step(c, [pc |-> "ca_get", conn |-> NoConn, smtpCode |-> code])
                 ELSE Step(c, [conn |-> NoConn]
                                  @@ FinishMX(g[c], MXResult(g[c], code, FALSE)))
    /\ UNCHANGED <<now, resultCache, mxCache, catchAllCache, rateKey, disposable, redisUp, sides>>

\* verifySMTPWithMX, lines 243-244: the backoff timer fired
BackoffWake(c) ==
    /\ g[c].pc = "backoff"
    /\ g[c].wait = 0
    /\ Step(c, [pc |-> "dial", attempt |-> g[c].attempt + 1])
    /\ UNCHANGED <<now, h, resultCache, mxCache, catchAllCache, rateKey, disposable, probeLog, budget, redisUp, others>>

\* verifySMTPWithMX, lines 245-246: the context ended the backoff
BackoffCancelled(c) ==
    /\ g[c].pc = "backoff"
    /\ g[c].ctxDone
    /\ Step(c, NextMX(g[c], "ctx"))
    /\ UNCHANGED <<now, h, resultCache, mxCache, catchAllCache, rateKey, disposable, probeLog, budget, redisUp, others>>

\* detectCatchAll, lines 346-356: getCachedCatchAllStatus
CatchAllGet(c) ==
    /\ g[c].pc = "ca_get"
    /\ LET cached == catchAllCache[g[c].domain]
       IN  IF RedisOK(c) /\ cached # ""
           THEN /\ Step(c, FinishMX(g[c], MXResult(g[c], g[c].smtpCode, cached = "1")))
                /\ Note(c, [catchAllPositive |-> h[c].catchAllPositive \/ cached = "1"])
           ELSE /\ Step(c, [pc |-> "ca_dial", probeIdx |-> 0, acceptCount |-> 0])
                /\ UNCHANGED h
    /\ UNCHANGED <<now, resultCache, mxCache, catchAllCache, rateKey, disposable, probeLog, budget, redisUp, others>>

\* detectCatchAll, line 361: smtpHandshake for one probe address, the dial
ProbeDial(c) ==
    /\ g[c].pc = "ca_dial"
    /\ IF g[c].ctxDone
       THEN /\ Step(c, [pc |-> "ca_sleep", wait |-> CatchAllProbeDelay])
            /\ UNCHANGED <<h, budget, obs>>
       ELSE \/ /\ Step(c, [pc |-> "ca_exchange", conn |-> CurrentMX(g[c]).Exchange])
               /\ Note(c, [openedConn |-> TRUE])
               /\ Answer("ca_dial", "connected")
               /\ UNCHANGED budget
            \/ /\ budget.faults > 0
               /\ budget' = [budget EXCEPT !.faults = @ - 1]
               /\ Step(c, [pc |-> "ca_sleep", wait |-> CatchAllProbeDelay])
               /\ UNCHANGED h
               /\ Answer("ca_dial", "failed")
    /\ UNCHANGED <<now, resultCache, mxCache, catchAllCache, rateKey, disposable, probeLog, redisUp, sides>>

\* detectCatchAll, lines 361-367: the probe's exchange; a 250/251 counts
ProbeExchange(c) ==
    /\ g[c].pc = "ca_exchange"
    /\ \/ /\ budget.faults > 0
          /\ budget' = [budget EXCEPT !.faults = @ - 1]
          /\ Step(c, [pc |-> "ca_sleep", conn |-> NoConn, wait |-> CatchAllProbeDelay])
          /\ Answer("ca_exchange", "failed")
       \/ \E code \in RcptReplies :
              /\ UNCHANGED budget
              /\ Answer("ca_exchange", ToString(code))
              /\ Step(c, [pc |-> "ca_sleep", conn |-> NoConn,
                          wait |-> CatchAllProbeDelay,
                          acceptCount |-> IF ProbeAccepted(code)
                                          THEN g[c].acceptCount + 1
                                          ELSE g[c].acceptCount])
    /\ UNCHANGED <<now, h, resultCache, mxCache, catchAllCache, rateKey, disposable, probeLog, redisUp, sides>>

\* detectCatchAll, lines 367-376, and verifySMTPWithMX, lines 262-272: the
\* sleep after a probe ended; after the last probe the judgement is made and
\* written with cacheCatchAllStatus
ProbeSleepDone(c) ==
    /\ g[c].pc = "ca_sleep"
    /\ g[c].wait = 0
    /\ IF g[c].probeIdx + 1 < CatchAllProbeCount
       THEN /\ Step(c, [pc |-> "ca_dial", probeIdx |-> g[c].probeIdx + 1])
            /\ UNCHANGED <<h, catchAllCache>>
       ELSE LET isCatchAll == CatchAllJudgement(g[c].acceptCount, CatchAllProbeCount)
            IN  /\ catchAllCache' = IF RedisOK(c)
                                     THEN [catchAllCache EXCEPT ![g[c].domain] =
                                               IF isCatchAll THEN "1" ELSE "0"]
                                     ELSE catchAllCache
                /\ Note(c, [wroteCatchAll |-> h[c].wroteCatchAll \/ RedisOK(c),
                            catchAllPositive |-> h[c].catchAllPositive \/ isCatchAll])
                /\ Step(c, FinishMX(g[c], MXResult(g[c], g[c].smtpCode, isCatchAll)))
    /\ UNCHANGED <<now, resultCache, mxCache, rateKey, disposable, probeLog, budget, redisUp, others>>

\* Verify, lines 185-188: cacheResult, and the return
CacheSet(c) ==
    /\ g[c].pc = "cache_set"
    /\ IF RedisOK(c)
       THEN /\ resultCache' = [resultCache EXCEPT ![g[c].emailHash] = Marshal(g[c].pending)]
            /\ Note(c, [wroteResult |-> TRUE])
       ELSE UNCHANGED <<h, resultCache>>
    /\ Step(c, [pc |-> "done", err |-> "nil",
                 result |-> g[c].pending, pending |-> NoVerdict,
                 mxResult |-> NoVerdict, mxRecords |-> <<>>, mxIdx |-> 0, attempt |-> 0])
    /\ UNCHANGED <<now, mxCache, catchAllCache, rateKey, disposable, probeLog, budget, redisUp, others>>

\* where a call is blocked on DNS, on a timer or on the SMTP peer
SuspensionPoints ==
    {"dns", "rate_wait", "dial", "exchange", "backoff", "ca_dial", "ca_exchange", "ca_sleep"}

\* the caller's context is cancelled or its deadline passes
Cancel(c) ==
    /\ InFlight(c)
    /\ ~g[c].ctxDone
    /\ budget.cancels > 0
    /\ budget' = [budget EXCEPT !.cancels = @ - 1]
    /\ Step(c, [ctxDone |-> TRUE])
    /\ Note(c, [cancelledAt |-> IF g[c].pc \in SuspensionPoints
                                 THEN "suspension" ELSE "other"])
    /\ UNCHANGED <<now, resultCache, mxCache, catchAllCache, rateKey, disposable, probeLog, redisUp, others>>

\* a caller in a timed wait that has not ended
Waiting(c) ==
    /\ g[c].pc \in {"rate_wait", "backoff", "ca_sleep"}
    /\ g[c].wait > 0
    /\ g[c].pc \in {"rate_wait", "backoff"} => ~g[c].ctxDone

\* time passes while every call in flight is waiting
Tick ==
    /\ \E c \in Callers : g[c].pc # "done"
    /\ \A c \in Callers : InFlight(c) => Waiting(c)
    /\ now' = (now + 1) % TicksPerSecond
    /\ g' = [c \in Callers |->
                IF InFlight(c) THEN [g[c] EXCEPT !.wait = @ - 1] ELSE g[c]]
    /\ rateKey' = [d \in Domains |-> Older(rateKey[d], 2 * DomainRateLimit)]
    /\ probeLog' = [d \in Domains |->
                       [probeLog[d] EXCEPT
                           !.age = Older([age |-> @, cut |-> 0], DomainRateLimit).age,
                           !.cool = IF @ > 0 THEN @ - 1 ELSE 0]]
    /\ UNCHANGED <<h, resultCache, mxCache, catchAllCache, disposable, budget, redisUp, others>>

Next ==
    \/ \E c \in Callers :
        \/ Start(c)
        \/ LookupMXCache(c)
        \/ DNSReply(c)
        \/ GetDomainMeta(c)
        \/ RateGet(c)
        \/ RateWake(c)
        \/ RateCancelled(c)
        \/ RateSet(c)
        \/ Dial(c)
        \/ Exchange(c)
        \/ BackoffWake(c)
        \/ BackoffCancelled(c)
        \/ CatchAllGet(c)
        \/ ProbeDial(c)
        \/ ProbeExchange(c)
        \/ ProbeSleepDone(c)
        \/ CacheSet(c)
        \/ Cancel(c)
    \/ Tick

Spec == Init /\ [][Next]_vars

\* ------------------------------------------------------- one call on its own

\* a single Verify call, with transport failures enough to use up every
\* attempt against every MX, and with Redis reachable or not
InitSolo ==
    /\ InitShared
    /\ budget = [calls |-> 1, faults |-> MaxSoloFaults, cancels |-> MaxCancels]
    /\ redisUp \in BOOLEAN
    /\ det = DetIdle
    /\ cls = ClsIdle
    /\ srt = SrtIdle
    /\ batch = BatchIdle
    /\ ses = SesIdle
    /\ obs = ObsOff
    /\ syn = SynIdle
    /\ req = ReqNone
    /\ node = NodeIdle
    /\ ui = UIIdle

SpecSolo == InitSolo /\ [][Next]_vars

\* ------------------------------------- detectCatchAll's probe loop on its own

verifierVars == <<now, g, h, resultCache, mxCache, catchAllCache, rateKey,
                  disposable, probeLog, budget, redisUp>>

\* what smtpHandshake gives detectCatchAll for a probe: a reply code, or an
\* error (0)
ProbeReplies == RcptReplies \cup {251, 0}

\* detectCatchAll entered with a miss in the catch-all cache, for a verifier
\* configured with a probe count from 1 to MaxProbeCount
InitDetect ==
    /\ InitVerifier
    /\ \E k \in 1..MaxProbeCount :
           det = [DetIdle EXCEPT !.pc = "probing", !.probeCount = k]
    /\ cls = ClsIdle
    /\ srt = SrtIdle
    /\ batch = BatchIdle
    /\ ses = SesIdle
    /\ obs = ObsOff
    /\ syn = SynIdle
    /\ req = ReqNone
    /\ node = NodeIdle
    /\ ui = UIIdle

\* detectCatchAll, lines 358-368: one turn of the loop
DetectProbe ==
    /\ det.pc = "probing"
    /\ Len(det.replies) < det.probeCount
    /\ \E code \in ProbeReplies :
           det' = [det EXCEPT !.replies = Append(@, code),
                              !.acceptCount = IF ProbeAccepted(code) THEN @ + 1 ELSE @]
    /\ UNCHANGED <<verifierVars, cls, srt, batch, ses, obs, syn, req, node, ui>>

\* detectCatchAll, lines 370-376: the judgement, and the value that
\* cacheCatchAllStatus writes to domain:catchall:<domain>
DetectJudge ==
    /\ det.pc = "probing"
    /\ Len(det.replies) = det.probeCount
    /\ LET isCatchAll == CatchAllJudgement(det.acceptCount, det.probeCount)
       IN  det' = [det EXCEPT !.pc = "judged",
                              !.isCatchAll = isCatchAll,
                              !.recorded = IF ~redisUp THEN ""
                                           ELSE IF isCatchAll THEN "1" ELSE "0"]
    /\ UNCHANGED <<verifierVars, cls, srt, batch, ses, obs, syn, req, node, ui>>

NextDetect == DetectProbe \/ DetectJudge

SpecDetect == InitDetect /\ [][NextDetect]_vars

\* ------------------------------------------- classifySMTPResponse on its own

\* the classifier given any code from 0 (no code) to MaxReplyCode
InitClassify ==
    /\ InitVerifier
    /\ det = DetIdle
    /\ \E code \in 0..MaxReplyCode : cls = [ClsIdle EXCEPT !.pc = "input", !.code = code]
    /\ srt = SrtIdle
    /\ batch = BatchIdle
    /\ ses = SesIdle
    /\ obs = ObsOff
    /\ syn = SynIdle
    /\ req = ReqNone
    /\ node = NodeIdle
    /\ ui = UIIdle

\* verifySMTPWithMX, line 256: the call of classifySMTPResponse
Classify ==
    /\ cls.pc = "input"
    /\ cls' = [cls EXCEPT !.pc = "classified", !.out = classifySMTPResponse(cls.code)]
    /\ UNCHANGED <<verifierVars, det, srt, batch, ses, obs, syn, req, node, ui>>

SpecClassify == InitClassify /\ [][Classify]_vars

\* --------------------------------------------- getMXRecords' sort on its own

\* the i-th MX host of an answer: the hosts of one answer differ, so that a
\* record can be followed from the answer to the sorted list
HostAt(i) == <<"m">> \o [k \in 1..i |-> "x"] \o <<".">>

\* the answers net.LookupMX can give: up to MaxMXCount records, in any order
\* of preference, ties included
DNSAnswers ==
    UNION {[1..n -> 1..MaxPriority] : n \in 0..MaxMXCount}

AnswerOf(prefs) ==
    [i \in 1..Len(prefs) |-> [Host |-> HostAt(i), Pref |-> prefs[i]]]

\* getMXRecords after a cache miss, with LookupMX's answer in hand
InitSort ==
    /\ InitVerifier
    /\ det = DetIdle
    /\ cls = ClsIdle
    /\ \E prefs \in DNSAnswers :
           srt = [SrtIdle EXCEPT !.pc = "answered", !.answer = AnswerOf(prefs)]
    /\ batch = BatchIdle
    /\ ses = SesIdle
    /\ obs = ObsOff
    /\ syn = SynIdle
    /\ req = ReqNone
    /\ node = NodeIdle
    /\ ui = UIIdle

\* getMXRecords, lines 397-409: the records are built from the answer and
\* sorted; the sorted list is what is cached and returned
SortAnswer ==
    /\ srt.pc = "answered"
    /\ srt' = [srt EXCEPT !.pc = "sorted",
                          !.records = sortMXRecords(RecordsOf(srt.answer))]
    /\ UNCHANGED <<verifierVars, det, cls, batch, ses, obs, syn, req, node, ui>>

SpecSort == InitSort /\ [][SortAnswer]_vars

\* ------------------------------------------------------- handleBatchValidate

\* the limit of handleBatchValidate
MaxBatchSize == 1000

\* the goroutine serving the request
Handler == 1

\* a decoded request with up to MaxBatch addresses, none included
InitBatch ==
    /\ InitShared
    /\ budget = [calls |-> 0, faults |-> MaxFaults, cancels |-> MaxCancels]
    /\ redisUp = TRUE
    /\ det = DetIdle
    /\ cls = ClsIdle
    /\ srt = SrtIdle
    /\ \E emails \in UNION {[1..n -> Inputs] : n \in 0..MaxBatch} :
           batch = [BatchIdle EXCEPT !.pc = "decoded", !.emails = emails]
    /\ ses = SesIdle
    /\ obs = ObsOff
    /\ syn = SynIdle
    /\ req = ReqNone
    /\ node = NodeIdle
    /\ ui = UIIdle

\* results[i] = result
StoreResult_First(results, i, r) == [results EXCEPT ![1] = r]

StoreResult(results, i, r) == [results EXCEPT ![i] = r]

\* the result made by the handler when Verify returns an error
ErrorResult(raw) ==
    [NoVerdict EXCEPT !.Email = raw, !.Status = StatusUnknown,
                      !.Reason = "Verification error", !.Confidence = 0]

\* handleBatchValidate, lines 158-169: the size checks, make(results)
BatchAccept ==
    /\ batch.pc = "decoded"
    /\ IF Len(batch.emails) = 0 \/ Len(batch.emails) > MaxBatchSize
       THEN batch' = [batch EXCEPT !.pc = "rejected"]
       ELSE batch' = [batch EXCEPT !.pc = "loop", !.i = 1,
                                   !.results = [k \in 1..Len(batch.emails) |-> NoVerdict]]
    /\ UNCHANGED <<verifierVars, det, cls, srt, ses, obs, syn, req, node, ui>>

\* handleBatchValidate, line 172-173: the call of Verify for emails[i]
BatchVerify ==
    /\ batch.pc = "loop"
    /\ batch.i <= Len(batch.emails)
    /\ Call(Handler, batch.emails[batch.i])
    /\ batch' = [batch EXCEPT !.pc = "call"]
    /\ UNCHANGED <<now, resultCache, mxCache, catchAllCache, rateKey, disposable,
                   probeLog, budget, redisUp, det, cls, srt, ses, syn, req, node, ui, obs>>

\* handleBatchValidate, lines 173-185: Verify has returned; its result, or an
\* error result, is stored at the index of the address
BatchReturn ==
    /\ batch.pc = "call"
    /\ g[Handler].pc = "done"
    /\ batch' = [batch EXCEPT
                     !.pc = "loop",
                     !.i = @ + 1,
                     !.results = StoreResult(@, batch.i,
                                     IF g[Handler].err # "nil"
                                     THEN ErrorResult(batch.emails[batch.i])
                                     ELSE g[Handler].result)]
    /\ g' = [g EXCEPT ![Handler] = [InitCall EXCEPT !.ctxDone = g[Handler].ctxDone]]
    /\ h' = [h EXCEPT ![Handler] = InitHistory]
    /\ UNCHANGED <<now, resultCache, mxCache, catchAllCache, rateKey, disposable,
                   probeLog, budget, redisUp, det, cls, srt, ses, syn, req, node, ui, obs>>

\* handleBatchValidate, lines 187-189: the response
BatchRespond ==
    /\ batch.pc = "loop"
    /\ batch.i > Len(batch.emails)
    /\ batch' = [batch EXCEPT !.pc = "responded"]
    /\ UNCHANGED <<verifierVars, det, cls, srt, ses, obs, syn, req, node, ui>>

NextBatch ==
    \/ BatchAccept
    \/ BatchVerify
    \/ BatchReturn
    \/ BatchRespond
    \/ \E c \in Callers :
        \/ LookupMXCache(c)
        \/ DNSReply(c)
        \/ GetDomainMeta(c)
        \/ RateGet(c)
        \/ RateWake(c)
        \/ RateCancelled(c)
        \/ RateSet(c)
        \/ Dial(c)
        \/ Exchange(c)
        \/ BackoffWake(c)
        \/ BackoffCancelled(c)
        \/ CatchAllGet(c)
        \/ ProbeDial(c)
        \/ ProbeExchange(c)
        \/ ProbeSleepDone(c)
        \/ CacheSet(c)
        \/ Cancel(c)
    \/ Tick

SpecBatch == InitBatch /\ [][NextBatch]_vars

\* ------------------------------------------------- smtpHandshake on its own

\* the replies of the peer to RCPT, and no reply at all (0)
SessionRcptReplies == RcptReplies \cup {251, 0}

\* smtpHandshake after DialContext succeeded
InitSession ==
    /\ InitVerifier
    /\ det = DetIdle
    /\ cls = ClsIdle
    /\ srt = SrtIdle
    /\ batch = BatchIdle
    /\ ses = [SesIdle EXCEPT !.pc = "connected"]
    /\ obs = ObsOff
    /\ syn = SynIdle
    /\ req = ReqNone
    /\ node = NodeIdle
    /\ ui = UIIdle

\* the return of smtpHandshake with an error: the deferred client.Close and
\* conn.Close close the connection, and send nothing
ReturnError(s, err) ==
    [s EXCEPT !.pc = "returned", !.err = err, !.closed = TRUE]

\* smtpHandshake, lines 288-296: smtp.NewClient reads the banner
SessionBanner ==
    /\ ses.pc = "connected"
    /\ \/ ses' = [ses EXCEPT !.pc = "hello"]
       \/ ses' = ReturnError(ses, "smtp client creation failed")
    /\ UNCHANGED <<verifierVars, det, cls, srt, batch, obs, syn, req, node, ui>>

\* smtpHandshake, lines 298-301: client.Hello sends EHLO and, when that is
\* refused, HELO; an accepted EHLO announces STARTTLS or not
SessionHello ==
    /\ ses.pc = "hello"
    /\ \/ \E ext \in BOOLEAN :
              ses' = [ses EXCEPT !.pc = IF ext THEN "starttls" ELSE "mail",
                                 !.ext = ext, !.sent = Append(@, "EHLO")]
       \/ ses' = [ses EXCEPT !.pc = "mail", !.sent = @ \o <<"EHLO", "HELO">>]
       \/ ses' = ReturnError([ses EXCEPT !.sent = @ \o <<"EHLO", "HELO">>], "EHLO failed")
    /\ UNCHANGED <<verifierVars, det, cls, srt, batch, obs, syn, req, node, ui>>

\* smtpHandshake, lines 303-312: client.StartTLS, its error ignored: the
\* command is refused, or the TLS handshake fails, or the session is
\* upgraded and EHLO is sent again
SessionStartTLS ==
    /\ ses.pc = "starttls"
    /\ \/ ses' = [ses EXCEPT !.pc = "mail", !.sent = Append(@, "STARTTLS")]
       \/ ses' = [ses EXCEPT !.pc = "mail", !.sent = Append(@, "STARTTLS"),
                             !.tls = "failed"]
       \/ ses' = [ses EXCEPT !.pc = "mail", !.sent = @ \o <<"STARTTLS", "EHLO">>,
                             !.tls = "on"]
    /\ UNCHANGED <<verifierVars, det, cls, srt, batch, obs, syn, req, node, ui>>

\* smtpHandshake, lines 314-317: client.Mail
SessionMail ==
    /\ ses.pc = "mail"
    /\ \/ ses' = [ses EXCEPT !.pc = "rcpt", !.sent = Append(@, "MAIL FROM")]
       \/ ses' = ReturnError([ses EXCEPT !.sent = Append(@, "MAIL FROM")], "MAIL FROM failed")
    /\ UNCHANGED <<verifierVars, det, cls, srt, batch, obs, syn, req, node, ui>>

\* smtpHandshake, lines 319-333: client.Rcpt, which takes any 25x for
\* success; an error is turned into its code by parseSMTPError
SessionRcpt ==
    /\ ses.pc = "rcpt"
    /\ \E reply \in SessionRcptReplies :
           ses' = [ses EXCEPT !.pc = "quit", !.sent = Append(@, "RCPT TO"),
                              !.code = IF reply = 251 THEN 250 ELSE reply]
    /\ UNCHANGED <<verifierVars, det, cls, srt, batch, obs, syn, req, node, ui>>

\* smtpHandshake, lines 335-338: client.Quit, and the return
SessionQuit ==
    /\ ses.pc = "quit"
    /\ ses' = [ses EXCEPT !.pc = "returned", !.sent = Append(@, "QUIT"),
                          !.closed = TRUE]
    /\ UNCHANGED <<verifierVars, det, cls, srt, batch, obs, syn, req, node, ui>>

NextSession ==
    \/ SessionBanner
    \/ SessionHello
    \/ SessionStartTLS
    \/ SessionMail
    \/ SessionRcpt
    \/ SessionQuit

SpecSession == InitSession /\ [][NextSession]_vars

\* ------------------------------- Redis unreachable against Redis empty

\* One address is verified twice under the same answers of DNS and of the
\* SMTP peers: by caller 1 while Redis is unreachable, then by caller 2 with
\* Redis reachable and holding nothing.  Neither context is cancelled.
Unreachable == 1
Reachable == 2

InitPair ==
    /\ InitShared
    /\ disposable = {}
    /\ budget = [calls |-> 0, faults |-> MaxPairFaults, cancels |-> 0]
    /\ redisUp = FALSE
    /\ det = DetIdle
    /\ cls = ClsIdle
    /\ srt = SrtIdle
    /\ batch = BatchIdle
    /\ ses = SesIdle
    /\ syn = SynIdle
    /\ obs = [ObsOff EXCEPT !.mode = "record"]
    /\ req = ReqNone
    /\ node = NodeIdle
    /\ ui = UIIdle

\* Verify is called while Redis is unreachable
PairStart ==
    /\ obs.mode = "record"
    /\ \E raw \in Inputs : Call(Unreachable, raw)
    /\ UNCHANGED <<now, resultCache, mxCache, catchAllCache, rateKey, disposable,
                   probeLog, budget, redisUp, others>>

\* the call has returned; Redis becomes reachable, with nothing stored
Reconnect ==
    /\ obs.mode = "record"
    /\ g[Unreachable].pc = "done"
    /\ redisUp' = TRUE
    /\ obs' = [obs EXCEPT !.mode = "replay"]
    /\ budget' = [budget EXCEPT !.faults = MaxPairFaults]
    /\ UNCHANGED <<now, g, h, resultCache, mxCache, catchAllCache, rateKey, disposable,
                   probeLog, sides>>

\* Verify is called again for the same address
PairRestart ==
    /\ obs.mode = "replay"
    /\ \E raw \in Inputs :
           /\ Normalize(raw) = g[Unreachable].email
           /\ Call(Reachable, raw)
    /\ UNCHANGED <<now, resultCache, mxCache, catchAllCache, rateKey, disposable,
                   probeLog, budget, redisUp, others>>

NextPair ==
    \/ PairStart
    \/ Reconnect
    \/ PairRestart
    \/ \E c \in Callers :
        \/ LookupMXCache(c)
        \/ DNSReply(c)
        \/ GetDomainMeta(c)
        \/ RateGet(c)
        \/ RateWake(c)
        \/ RateSet(c)
        \/ Dial(c)
        \/ Exchange(c)
        \/ BackoffWake(c)
        \/ CatchAllGet(c)
        \/ ProbeDial(c)
        \/ ProbeExchange(c)
        \/ ProbeSleepDone(c)
        \/ CacheSet(c)
    \/ Tick

SpecPair == InitPair /\ [][NextPair]_vars

\* -------------------------------------------- isValidEmailSyntax on its own

\* the characters of the strings given to the syntax check
AddressChars == {"a", "1", "@", ".", "-"}

InitSyntax ==
    /\ InitVerifier
    /\ det = DetIdle
    /\ cls = ClsIdle
    /\ srt = SrtIdle
    /\ batch = BatchIdle
    /\ ses = SesIdle
    /\ obs = ObsOff
    /\ \E email \in UNION {[1..n -> AddressChars] : n \in 0..MaxAddressLen} :
           syn = [SynIdle EXCEPT !.pc = "input", !.email = email]
    /\ req = ReqNone
    /\ node = NodeIdle
    /\ ui = UIIdle

\* Verify, line 156: the call of isValidEmailSyntax
CheckSyntax ==
    /\ syn.pc = "input"
    /\ syn' = [syn EXCEPT !.pc = "checked", !.valid = isValidEmailSyntax(syn.email)]
    /\ UNCHANGED <<verifierVars, det, cls, srt, batch, ses, obs, req, node, ui>>

SpecSyntax == InitSyntax /\ [][CheckSyntax]_vars

\* ------------------------------------------------------------ handleValidate

\* two requests to /v1/validate, the second one sent after the first one was
\* answered
InitValidate ==
    /\ InitShared
    /\ budget = [calls |-> 0, faults |-> MaxFaults, cancels |-> MaxCancels]
    /\ redisUp = TRUE
    /\ det = DetIdle
    /\ cls = ClsIdle
    /\ srt = SrtIdle
    /\ batch = BatchIdle
    /\ ses = SesIdle
    /\ syn = SynIdle
    /\ obs = ObsOff
    /\ req = ReqNone
    /\ node = NodeIdle
    /\ ui = UIIdle

\* handleValidate, lines 129-141: the request is decoded, one without an
\* address is refused, and Verify is called with the address alone
HandleValidate(c) ==
    /\ req[c].pc = "none"
    /\ g[c].pc = "idle"
    /\ \A d \in Callers : d < c => req[d].pc \in {"answered", "refused"}
    /\ \E raw \in Inputs \cup {<<>>}, skipCache \in BOOLEAN :
           IF raw = <<>>
           THEN /\ req' = [req EXCEPT ![c] = [@ EXCEPT !.pc = "refused",
                                                       !.skipCache = skipCache,
                                                       !.code = 400]]
                /\ UNCHANGED <<g, h>>
           ELSE /\ Call(c, raw)
                /\ req' = [req EXCEPT ![c] =
                               [@ EXCEPT !.pc = "called",
                                         !.skipCache = skipCache,
                                         !.fromCache =
                                             /\ RedisOK(c)
                                             /\ resultCache[hashEmail(Normalize(raw))] # NoEntry]]
    /\ UNCHANGED <<now, resultCache, mxCache, catchAllCache, rateKey, disposable,
                   probeLog, budget, redisUp, det, cls, srt, batch, ses, syn, node, ui, obs>>

\* handleValidate, lines 141-148: Verify has returned
AnswerValidate(c) ==
    /\ req[c].pc = "called"
    /\ g[c].pc = "done"
    /\ req' = [req EXCEPT ![c].pc = "answered",
                          ![c].code = IF g[c].err # "nil" THEN 500 ELSE 200]
    /\ UNCHANGED <<verifierVars, det, cls, srt, batch, ses, syn, obs, node, ui>>

NextValidate ==
    \/ \E c \in Callers :
        \/ HandleValidate(c)
        \/ AnswerValidate(c)
        \/ LookupMXCache(c)
        \/ DNSReply(c)
        \/ GetDomainMeta(c)
        \/ RateGet(c)
        \/ RateWake(c)
        \/ RateCancelled(c)
        \/ RateSet(c)
        \/ Dial(c)
        \/ Exchange(c)
        \/ BackoffWake(c)
        \/ BackoffCancelled(c)
        \/ CatchAllGet(c)
        \/ ProbeDial(c)
        \/ ProbeExchange(c)
        \/ ProbeSleepDone(c)
        \/ CacheSet(c)
        \/ Cancel(c)
    \/ Tick

SpecValidate == InitValidate /\ [][NextValidate]_vars

\* ------------------------------------------------ the Node server (server.js)


\* what the Node server leaves alone
notNode == <<verifierVars, det, cls, srt, batch, ses, syn, req, ui, obs>>

\* RATE_LIMIT_DELAY, in ticks
RATE_LIMIT_DELAY == 1 * TicksPerSecond

\* an entry of a domain's promise chain: the promise nextTask of one call of
\* scheduleDomainTask, with the task it runs
NewTask(owner, kind) ==
    [owner |-> owner, kind |-> kind, st |-> "waiting", timer |-> 0, runs |-> 0,
     viaCatch |-> FALSE, step |-> 0, socket |-> "none", isValid |-> FALSE]

\* the promise the entry k of a chain is chained to: domainQueues.get(domain)
PreviousTask(q, k) == IF k = 1 THEN "fulfilled" ELSE q[k - 1].st

Settled(task) == task.st \in {"fulfilled", "rejected"}

\* taskFn is called: for a task of smartVerify this is verifySMTP, which opens
\* the socket
Started(task, viaCatch) ==
    [task EXCEPT !.st = "running", !.runs = @ + 1, !.viaCatch = viaCatch,
                 !.step = 0,
                 !.socket = IF task.kind = "task" THEN "none" ELSE "open"]

\* verifySMTP's finish: the promise is resolved once and the socket destroyed
finish(task, isValid) ==
    IF task.st = "running"
    THEN [task EXCEPT !.st = "fulfilled", !.isValid = isValid, !.socket = "closed"]
    ELSE task

SetTask(d, k, task) ==
    node' = [node EXCEPT !.domainQueues[d][k] = task]

\* the task k of domain d has settled
SettleTask(d, k, task) ==
    node' = [node EXCEPT !.domainQueues[d][k] = task, !.sinceSettled[d] = 0]

\* scheduleDomainTask, lines 112-114: the previous promise is fulfilled, the
\* then-callback starts to sleep
ChainThen(d, k) ==
    LET q == node.domainQueues[d]
    IN  /\ k \in 1..Len(q)
        /\ q[k].st = "waiting"
        /\ PreviousTask(q, k) = "fulfilled"
        /\ SetTask(d, k, [q[k] EXCEPT !.st = "sleeping", !.timer = RATE_LIMIT_DELAY])
        /\ UNCHANGED notNode

\* scheduleDomainTask, lines 113-114: the sleep is over, taskFn is called
SleepOver(d, k) ==
    LET q == node.domainQueues[d]
    IN  /\ k \in 1..Len(q)
        /\ q[k].st = "sleeping"
        /\ q[k].timer = 0
        /\ node' = [node EXCEPT
                       !.domainQueues[d][k] = Started(q[k], FALSE),
                       !.probes[d] = IF q[k].kind = "probe" THEN @ + 1 ELSE @]
        /\ UNCHANGED notNode

\* scheduleDomainTask, lines 115-118: the previous promise is rejected, the
\* then-callback is skipped and the catch-callback calls taskFn
ChainCatch(d, k) ==
    LET q == node.domainQueues[d]
    IN  /\ k \in 1..Len(q)
        /\ q[k].st = "waiting"
        /\ PreviousTask(q, k) = "rejected"
        /\ node' = [node EXCEPT
                       !.domainQueues[d][k] = Started(q[k], TRUE),
                       !.probes[d] = IF q[k].kind = "probe" THEN @ + 1 ELSE @]
        /\ UNCHANGED notNode

\* a task other than verifySMTP returns: its promise is fulfilled
TaskFulfilled(d, k) ==
    LET q == node.domainQueues[d]
    IN  /\ k \in 1..Len(q)
        /\ q[k].st = "running"
        /\ q[k].kind = "task"
        /\ SettleTask(d, k, [q[k] EXCEPT !.st = "fulfilled"])
        /\ UNCHANGED notNode

\* a task other than verifySMTP fails.  A failure inside the then-callback
\* rejects the promise of then(), so that the catch-callback calls taskFn a
\* second time; a failure inside the catch-callback rejects nextTask.
TaskRejected(d, k) ==
    LET q == node.domainQueues[d]
    IN  /\ k \in 1..Len(q)
        /\ q[k].st = "running"
        /\ q[k].kind = "task"
        /\ IF q[k].viaCatch
           THEN SettleTask(d, k, [q[k] EXCEPT !.st = "rejected"])
           ELSE SettleTask(d, k, Started(q[k], TRUE))
        /\ UNCHANGED notNode

\* a caller submits a task for a domain: scheduleDomainTask, lines 106-121
Submit(d) ==
    /\ node.mode = "tasks"
    /\ Len(node.domainQueues[d]) < MaxTasks
    /\ node' = [node EXCEPT !.domainQueues[d] = Append(@, NewTask(0, "task"))]
    /\ UNCHANGED notNode

\* verifySMTP, lines 68-100: the peer sends the reply the state machine waits
\* for (220, 250, 250), and the next command is written; a reply to RCPT TO
\* ends the handshake.  Any other reply before RCPT TO changes nothing.
SmtpData(d, k) ==
    LET q == node.domainQueues[d]
    IN  /\ k \in 1..Len(q)
        /\ q[k].st = "running"
        /\ q[k].socket = "open"
        /\ IF q[k].step < 3
           THEN SetTask(d, k, [q[k] EXCEPT !.step = @ + 1])
           ELSE \E isValid \in BOOLEAN : SettleTask(d, k, finish(q[k], isValid))
        /\ UNCHANGED notNode

\* verifySMTP, lines 63-66: the socket was idle for SMTP_TIMEOUT, or failed
SmtpTimeoutOrError(d, k) ==
    LET q == node.domainQueues[d]
    IN  /\ k \in 1..Len(q)
        /\ q[k].st = "running"
        /\ q[k].socket = "open"
        /\ SettleTask(d, k, finish(q[k], FALSE))
        /\ UNCHANGED notNode

\* the peer closes the connection: the socket emits 'end' and 'close', for
\* which verifySMTP has no handler, and its idle timer is cleared
SmtpPeerClosed(d, k) ==
    LET q == node.domainQueues[d]
    IN  /\ k \in 1..Len(q)
        /\ q[k].st = "running"
        /\ q[k].socket = "open"
        /\ SetTask(d, k, [q[k] EXCEPT !.socket = "closed"])
        /\ UNCHANGED notNode

OwnTask(d, c, kind) ==
    CHOOSE k \in 1..Len(node.domainQueues[d]) :
        node.domainQueues[d][k].owner = c /\ node.domainQueues[d][k].kind = kind

\* smartVerify, lines 148-155, for a domain whose status is `status`
Decide(nd, c, d, status) ==
    IF status = "catchall"
    THEN [nd EXCEPT !.call[c].pc = "done",
                    !.call[c].reason = "Catch-All Domain (Risky)"]
    ELSE [nd EXCEPT !.call[c].pc = "target",
                    !.domainQueues[d] = Append(@, NewTask(c, "target"))]

\* POST /api/validate-batch, lines 163-165, and smartVerify, lines 126-131
SmartVerify(c) ==
    /\ node.mode = "server"
    /\ node.call[c].pc = "idle"
    /\ \/ node' = [node EXCEPT !.call[c].pc = "done",
                               !.call[c].reason = "Invalid Format"]
       \/ \E d \in NodeDomains :
              node' = [node EXCEPT !.call[c].pc = "mx", !.call[c].domain = d]
    /\ UNCHANGED notNode

\* getMxRecords, lines 25-38, and smartVerify, lines 131-132
GetMx(c) ==
    LET d == node.call[c].domain
    IN  /\ node.call[c].pc = "mx"
        /\ \E found \in IF node.dnsCache[d] = "unset" THEN {"records", "null"}
                       ELSE {node.dnsCache[d]} :
               node' = [node EXCEPT
                           !.dnsCache[d] = found,
                           !.call[c].pc = IF found = "null" THEN "done" ELSE "status",
                           !.call[c].reason = IF found = "null" THEN "No MX Records" ELSE @]
        /\ UNCHANGED notNode

\* smartVerify, lines 135-141 and 148-154: the status of the domain is read;
\* when there is none a probe is scheduled
CheckStatus(c) ==
    LET d == node.call[c].domain
    IN  /\ node.call[c].pc = "status"
        /\ IF node.domainStatus[d] = "unset"
           THEN node' = [node EXCEPT !.call[c].pc = "probe",
                                     !.domainQueues[d] = Append(@, NewTask(c, "probe"))]
           ELSE node' = Decide(node, c, d, node.domainStatus[d])
        /\ UNCHANGED notNode

\* smartVerify, lines 141-154: the probe's promise is fulfilled
ProbeDone(c) ==
    LET d == node.call[c].domain
    IN  /\ node.call[c].pc = "probe"
        /\ LET probe == node.domainQueues[d][OwnTask(d, c, "probe")]
               status == IF probe.isValid THEN "catchall" ELSE "clean"
           IN  /\ probe.st = "fulfilled"
               /\ node' = Decide([node EXCEPT !.domainStatus[d] = status], c, d, status)
        /\ UNCHANGED notNode

\* smartVerify, lines 154-155: the target's promise is fulfilled
TargetDone(c) ==
    LET d == node.call[c].domain
    IN  /\ node.call[c].pc = "target"
        /\ LET target == node.domainQueues[d][OwnTask(d, c, "target")]
           IN  /\ target.st = "fulfilled"
               /\ node' = [node EXCEPT
                              !.call[c].pc = "done",
                              !.call[c].reason = IF target.isValid THEN "Mailbox Exists"
                                                 ELSE "not valid"]
        /\ UNCHANGED notNode

\* POST /api/validate-batch, lines 163-172: Promise.all is fulfilled
BatchReply ==
    /\ node.mode = "server"
    /\ ~node.replied
    /\ \A c \in NodeCalls : node.call[c].pc = "done"
    /\ node' = [node EXCEPT !.replied = TRUE]
    /\ UNCHANGED notNode

\* a promise reaction or a timer is due
NodeReady ==
    \/ \E d \in NodeDomains : \E k \in 1..Len(node.domainQueues[d]) :
           LET q == node.domainQueues[d]
           IN  \/ q[k].st = "waiting" /\ PreviousTask(q, k) \in {"fulfilled", "rejected"}
               \/ q[k].st = "sleeping" /\ q[k].timer = 0
    \/ \E c \in NodeCalls :
           \/ node.call[c].pc \in {"mx", "status"}
           \/ /\ node.call[c].pc \in {"probe", "target"}
              /\ node.domainQueues[node.call[c].domain]
                     [OwnTask(node.call[c].domain, c, node.call[c].pc)].st = "fulfilled"

\* time passes
NodeTick ==
    /\ ~NodeReady
    /\ \E d \in NodeDomains : \E k \in 1..Len(node.domainQueues[d]) :
           node.domainQueues[d][k].st \in {"sleeping", "running"}
    /\ node' = [node EXCEPT
                   !.domainQueues = [d \in NodeDomains |->
                       [k \in 1..Len(node.domainQueues[d]) |->
                           IF node.domainQueues[d][k].st = "sleeping"
                           THEN [node.domainQueues[d][k] EXCEPT !.timer = @ - 1]
                           ELSE node.domainQueues[d][k]]],
                   !.sinceSettled = [d \in NodeDomains |->
                       IF node.sinceSettled[d] < RATE_LIMIT_DELAY
                       THEN node.sinceSettled[d] + 1 ELSE node.sinceSettled[d]]]
    /\ UNCHANGED notNode

InitNodeBase ==
    /\ InitVerifier
    /\ disposable = {}
    /\ det = DetIdle
    /\ cls = ClsIdle
    /\ srt = SrtIdle
    /\ batch = BatchIdle
    /\ ses = SesIdle
    /\ syn = SynIdle
    /\ req = ReqNone
    /\ obs = ObsOff
    /\ ui = UIIdle

\* the server with one batch request of NumNodeCalls addresses
InitServer ==
    /\ InitNodeBase
    /\ node = [NodeIdle EXCEPT !.mode = "server"]

NextServer ==
    \/ \E c \in NodeCalls :
        \/ SmartVerify(c)
        \/ GetMx(c)
        \/ CheckStatus(c)
        \/ ProbeDone(c)
        \/ TargetDone(c)
    \/ \E d \in NodeDomains : \E k \in 1..(2 * NumNodeCalls) :
        \/ ChainThen(d, k)
        \/ SleepOver(d, k)
        \/ SmtpData(d, k)
        \/ SmtpTimeoutOrError(d, k)
        \/ SmtpPeerClosed(d, k)
    \/ BatchReply
    \/ NodeTick

SpecServer == InitServer /\ [][NextServer]_vars

\* scheduleDomainTask given tasks that succeed or fail
InitSchedule ==
    /\ InitNodeBase
    /\ node = [NodeIdle EXCEPT !.mode = "tasks"]

NextSchedule ==
    \/ \E d \in NodeDomains :
        \/ Submit(d)
        \/ \E k \in 1..MaxTasks :
            \/ ChainThen(d, k)
            \/ ChainCatch(d, k)
            \/ SleepOver(d, k)
            \/ TaskFulfilled(d, k)
            \/ TaskRejected(d, k)
    \/ NodeTick

SpecSchedule == InitSchedule /\ [][NextSchedule]_vars

\* ------------------------------------------------------- the UI (App.jsx)

\* what the UI leaves alone
notUI == <<verifierVars, det, cls, srt, batch, ses, syn, req, node, obs>>

Loops == 1..MaxLoops

NoLoop == [active |-> FALSE, completedCount |-> 0, items |-> <<>>]

\* the items of a set, in the order of the results
RECURSIVE InOrder(_)
InOrder(S) ==
    IF S = {} THEN <<>>
    ELSE LET i == CHOOSE x \in S : \A y \in S : x <= y
         IN  <<i>> \o InOrder(S \ {i})

\* processQueue, lines 53-73: the call up to its first await.  `progress` is
\* the state of the render the handler was created in.
processQueue(u, l, itemsToProcess) ==
    [u EXCEPT !.stopProcessing = FALSE,
              !.processingState = "PROCESSING",
              !.loop[l] = [active |-> TRUE,
                           completedCount |-> ui.progress.current,
                           items |-> itemsToProcess]]

FreeLoop == CHOOSE l \in Loops : ~ui.loop[l].active

\* handleProcess, lines 113-133: a click in state IDLE.  processBatch finds
\* `valid` addresses that pass the client-side check.
StartFresh ==
    /\ ui.processingState = "IDLE"
    /\ ui.runs < MaxRuns
    /\ \E l \in Loops : ~ui.loop[l].active
    /\ \E valid \in 0..MaxItems, useServer \in BOOLEAN :
           LET counted == [ui EXCEPT !.runs = @ + 1]
           IN  IF ~useServer
               THEN ui' = [counted EXCEPT !.pending = {}]
               ELSE IF valid = 0
               THEN ui' = [counted EXCEPT !.pending = {}]
               ELSE ui' = processQueue(
                              [counted EXCEPT !.pending = 1..valid,
                                              !.progress = [current |-> 0, total |-> valid]],
                              FreeLoop, InOrder(1..valid))
    /\ UNCHANGED notUI

\* handleProcess, lines 97-100, and handleStop, lines 48-51
Stop ==
    /\ ui.processingState = "PROCESSING"
    /\ ui' = [ui EXCEPT !.stopProcessing = TRUE, !.processingState = "PAUSED"]
    /\ UNCHANGED notUI

\* handleProcess, lines 102-111: a click in state PAUSED
Resume ==
    /\ ui.processingState = "PAUSED"
    /\ \E l \in Loops : ~ui.loop[l].active
    /\ IF ui.pending # {}
       THEN ui' = processQueue(ui, FreeLoop, InOrder(ui.pending))
       ELSE ui' = [ui EXCEPT !.processingState = "IDLE"]
    /\ UNCHANGED notUI

\* processQueue, lines 70-93: validateWithServer has returned or failed for
\* the item the loop l was waiting for; the result is stored and counted, and
\* the loop goes on to its next await or ends
ItemDone(l) ==
    LET lp == ui.loop[l]
        rest == Tail(lp.items)
        counted == [ui EXCEPT !.pending = @ \ {Head(lp.items)},
                              !.progress.current = lp.completedCount + 1]
    IN  /\ lp.active
        /\ ui' = IF ui.stopProcessing
                 THEN [counted EXCEPT !.loop[l] = NoLoop]
                 ELSE IF rest = <<>>
                 THEN [counted EXCEPT !.loop[l] = NoLoop, !.processingState = "IDLE"]
                 ELSE [counted EXCEPT !.loop[l].completedCount = @ + 1,
                                      !.loop[l].items = rest]
        /\ UNCHANGED notUI

InitUI ==
    /\ InitNodeBase
    /\ node = NodeIdle

NextUI ==
    \/ StartFresh
    \/ Stop
    \/ Resume
    \/ \E l \in Loops : ItemDone(l)

SpecUI == InitUI /\ [][NextUI]_vars

\* ------------------------------------------------------------------- claims

Done(c) == g[c].pc = "done"

\* C1: when two or more Verify calls for the same normalised address run
\* concurrently, starting from an empty Result Cache, only one of them opens
\* an SMTP session.
C1_OneProbePerAddress ==
    \A c1, c2 \in Callers :
        (/\ c1 # c2
         /\ c1 \in h[c2].startedWith
         /\ g[c1].emailHash = g[c2].emailHash
         /\ h[c1].startedAfter = {}
         /\ h[c2].startedAfter = {})
        => ~(h[c1].openedConn /\ h[c2].openedConn)

\* C2: two probe sessions for the target address on one domain never start
\* less than the per-domain interval (1 second) apart.
C2_ProbeSpacing == \A d \in Domains : ~probeLog[d].tooClose

\* C3: the number of SMTP connections open at one instant never exceeds the
\* configured ceiling, per domain and per MX host.
C3_ConnectionCeilings ==
    /\ \A d \in Domains :
           Cardinality({c \in Callers : g[c].conn # NoConn /\ g[c].domain = d})
               <= MaxConcurrentPerDomain
    /\ \A host \in MXHosts :
           Cardinality({c \in Callers : g[c].conn = host}) <= MaxConcurrentPerMX

\* C4: a Verify call for an address made after an earlier call for the same
\* address returned (the earlier call not cancelled, and within the entry's
\* lifetime) opens no SMTP connection and returns the earlier verdict.
C4_SecondCallFromCache ==
    \A c1, c2 \in Callers :
        (/\ c1 \in h[c2].startedAfter
         /\ g[c1].emailHash = g[c2].emailHash
         /\ h[c1].cancelledAt = "")
        => /\ ~h[c2].openedConn
           /\ Done(c2) => g[c2].result = g[c1].result

\* C5: a call that was not cancelled, whose target RCPT was accepted and for
\* whose domain catch-all detection was positive, returns the verdict
\* catch-all / catch_all_domain / 0.50 with is_catch_all set.
C5_CatchAllVerdict ==
    \A c \in Callers :
        (Done(c) /\ h[c].catchAllPositive /\ h[c].cancelledAt = "")
        => /\ g[c].result.Status = StatusCatchAll
           /\ g[c].result.Reason = "catch_all_domain"
           /\ g[c].result.Confidence = 50
           /\ g[c].result.IsCatchAll

FlagConsistent(v) ==
    /\ v.Status = StatusValid => ~v.IsCatchAll
    /\ v.Status = StatusCatchAll => v.IsCatchAll

\* C6: in every verdict, returned by Verify fresh or from the Result Cache,
\* produced by verifySMTPWithMX or stored in the Result Cache, status valid
\* goes with is_catch_all false and status catch-all with is_catch_all true.
C6_CatchAllFlagConsistent ==
    /\ \A c \in Callers :
           /\ FlagConsistent(g[c].result)
           /\ FlagConsistent(g[c].mxResult)
           /\ FlagConsistent(g[c].pending)
    /\ \A k \in Hashes : FlagConsistent(Unmarshal(resultCache[k]))

\* a valid verdict was returned fresh by one call and from the Result Cache
\* by a later one
C6_Witness ==
    \E c1, c2 \in Callers :
        /\ c1 \in h[c2].startedAfter
        /\ Done(c2)
        /\ ~h[c2].openedConn
        /\ h[c1].openedConn
        /\ g[c1].result.Status = StatusValid
        /\ g[c2].result.Status = StatusValid
        /\ ~g[c2].result.IsCatchAll

\* C7: with K probes, detectCatchAll judges the domain catch-all exactly when
\* at least ceil(K/2) probes were accepted.
C7_CatchAllThreshold ==
    det.pc = "judged"
        => (det.isCatchAll <=> det.acceptCount >= (det.probeCount + 1) \div 2)

\* C8: a call whose context was cancelled or whose deadline passed returns
\* unknown / deadline_exceeded / 0.10.
C8_CancelledVerdict ==
    \A c \in Callers :
        (Done(c) /\ g[c].ctxDone)
        => /\ g[c].result.Status = StatusUnknown
           /\ g[c].result.Reason = "deadline_exceeded"
           /\ g[c].result.Confidence = 10

\* C9: a call cancelled at a suspension point has, when it returns, written
\* no Result Cache entry and no catch-all judgement.
C9_CancelLeavesNoTrace ==
    \A c \in Callers :
        (Done(c) /\ h[c].cancelledAt = "suspension")
        => ~h[c].wroteResult /\ ~h[c].wroteCatchAll

\* C10: once a call's context is done the call opens no further SMTP session
\* and begins no further wait that takes time (rate-limit wait, backoff,
\* sleep after a catch-all probe).
C10_NoDelayAfterDeadline ==
    [][\A c \in Callers :
          g[c].ctxDone =>
              /\ (~Waiting(c) => ~Waiting(c)')
              /\ (g[c].conn = NoConn => g'[c].conn = NoConn)]_vars

Statuses == {StatusValid, StatusInvalid, StatusCatchAll, StatusUnknown, StatusRisky}

\* C11: Verify never returns an error: whatever fails (DNS, SMTP, the rate
\* limit key, Redis, the caller's context), a call that has returned has
\* returned a verdict and a nil error.
C11_VerifyReturnsNoError ==
    \A c \in Callers :
        Done(c) => g[c].err = "nil" /\ g[c].result.Status \in Statuses

\* a call returned after its last MX failed with a transport error, with
\* Redis unreachable
C11_Witness ==
    \E c \in Callers :
        /\ Done(c)
        /\ ~redisUp
        /\ g[c].result.Reason \in {"smtp_error: " \o e : e \in DialErrors \cup ExchangeErrors}

\* C12: a call whose normalised input fails the syntax check (the regular
\* expression or the length limit) has returned invalid / syntax_error / 1.0
\* at once: it never looks up MX records and never opens an SMTP connection.
C12_SyntaxRejected ==
    \A c \in Callers :
        (g[c].pc # "idle" /\ ~(emailRegex(g[c].email) /\ Len(g[c].email) <= 320))
        => /\ Done(c)
           /\ g[c].result.Status = StatusInvalid
           /\ g[c].result.Reason = "syntax_error"
           /\ g[c].result.Confidence = 100
           /\ g[c].result.MXRecords = <<>>
           /\ ~h[c].openedConn

\* the input "a d" was rejected
C12_Witness ==
    \E c \in Callers :
        /\ Done(c)
        /\ g[c].email = Normalize(AddrBad)
        /\ g[c].result.Reason = "syntax_error"

\* C13: an uncancelled call for an address whose domain is flagged disposable
\* returns risky / disposable_domain / 0.90 without smtp_code and without
\* an SMTP connection, whatever the MX lookup of the domain would give.
C13_DisposableShortCircuit ==
    \A c \in Callers :
        (Done(c) /\ g[c].domain \in disposable /\ h[c].cancelledAt = "")
        => /\ g[c].result.Status = StatusRisky
           /\ g[c].result.Reason = "disposable_domain"
           /\ g[c].result.Confidence = 90
           /\ g[c].result.SMTPCode = 0
           /\ ~h[c].openedConn

\* C14: an uncancelled call that starts when the domain's catch-all status is
\* recorded as true (and the domain is not disposable) returns catch-all /
\* catch_all_domain / 0.50 and opens no SMTP connection.
C14_KnownCatchAll ==
    \A c \in Callers :
        (/\ Done(c)
         /\ h[c].catchAllKnown
         /\ h[c].cancelledAt = ""
         /\ g[c].domain \notin disposable)
        => /\ g[c].result.Status = StatusCatchAll
           /\ g[c].result.Reason = "catch_all_domain"
           /\ g[c].result.Confidence = 50
           /\ ~h[c].openedConn

\* C15: an uncancelled call whose MX lookup found the domain missing or
\* without MX records returns invalid / no_mx_records / 0.95, and one whose
\* MX lookup timed out returns status unknown.
C15_DNSOutcomes ==
    \A c \in Callers :
        (Done(c) /\ h[c].cancelledAt = "")
        => /\ h[c].dnsOutcome \in {"nxdomain", "empty"}
                => /\ g[c].result.Status = StatusInvalid
                   /\ g[c].result.Reason = "no_mx_records"
                   /\ g[c].result.Confidence = 95
           /\ h[c].dnsOutcome = "timeout" => g[c].result.Status = StatusUnknown

\* the classifier table of the specification, for the codes it covers
ClassifierTable(code) ==
    CASE code \in {250, 251} -> <<StatusValid, "mailbox_exists", 98>>
      [] code \in {550, 551, 553} -> <<StatusInvalid, "mailbox_not_found", 95>>
      [] code \in {450, 451, 452} -> <<StatusUnknown, "temporary_failure", 30>>
      [] code = 421 -> <<StatusUnknown, "rate_limited", 20>>
      [] code \in (500..549) \cup {552} \/ code >= 554
            -> <<StatusInvalid, "smtp_error_" \o ToString(code), 70>>
      [] code = 0 -> <<StatusUnknown, "connection_failed", 20>>
      [] OTHER -> <<>>

\* C16: for every reply code the classifier table covers, including no code
\* (0), classifySMTPResponse gives the table's status, reason and confidence.
C16_ClassifierTable ==
    (cls.pc = "classified" /\ ClassifierTable(cls.code) # <<>>)
        => cls.out = ClassifierTable(cls.code)

\* C17: when performSMTPVerification has run out of MX hosts and the last
\* RCPT reply was 450/451/452, the verdict Verify is about to return is
\* unknown / temporary_failure / 0.30 with that smtp_code; when it was 421,
\* unknown / rate_limited / 0.20.
C17_TemporaryReplies ==
    \A c \in Callers :
        (g[c].pc = "cache_set" /\ g[c].mxResult.SMTPCode \in {450, 451, 452, 421})
        => /\ g[c].pending.Status = StatusUnknown
           /\ g[c].pending.Reason = IF g[c].mxResult.SMTPCode = 421
                                     THEN "rate_limited" ELSE "temporary_failure"
           /\ g[c].pending.Confidence = IF g[c].mxResult.SMTPCode = 421 THEN 20 ELSE 30
           /\ g[c].pending.SMTPCode = g[c].mxResult.SMTPCode

\* C18: an uncancelled call all of whose attempts, MaxRetries against every
\* MX, failed with a transport error returns unknown / connection_failed /
\* 0.20.
C18_TransportFailureVerdict ==
    \A c \in Callers :
        (/\ Done(c)
         /\ h[c].cancelledAt = ""
         /\ h[c].smtp = "errors"
         /\ budget.calls = 0
         /\ budget.faults = MaxSoloFaults - MaxRetries * Len(DNSAnswer))
        => /\ g[c].result.Status = StatusUnknown
           /\ g[c].result.Reason = "connection_failed"
           /\ g[c].result.Confidence = 20

\* C19: after a session to a domain was answered 421, no session for a target
\* address on that domain is started until more than the base per-domain
\* interval has passed.
C19_CoolDownAfter421 ==
    [][\A c \in Callers :
          (g[c].pc = "dial" /\ g'[c].pc = "exchange")
              => probeLog[g[c].domain].cool = 0]_vars

\* C20: the MX records are tried in ascending priority, and once an MX has
\* answered the target RCPT with 250/251 or 550/551/553 no other MX is
\* connected to and the verdict returned is that reply.
C20_FirstDeterministicReplyWins ==
    \A c \in Callers :
        /\ \A i, j \in 1..Len(g[c].mxRecords) :
               i < j => g[c].mxRecords[i].Priority <= g[c].mxRecords[j].Priority
        /\ h[c].decidedAt # 0 =>
               /\ g[c].conn # NoConn => g[c].mxIdx = h[c].decidedAt
               /\ Done(c) => /\ g[c].result.SMTPCode \in {250, 251, 550, 551, 553}
                              /\ g[c].result.Status \in {StatusValid, StatusInvalid}

\* C21: sortMXRecords returns a permutation of its input in which priorities
\* never decrease from one record to the next, and getMXRecords returns the
\* records of the DNS answer in that order.
Occurrences(recs, r) == Cardinality({k \in 1..Len(recs) : recs[k] = r})

IsPermutation(a, b) ==
    /\ Len(a) = Len(b)
    /\ \A k \in 1..Len(a) : Occurrences(a, a[k]) = Occurrences(b, a[k])

Ascending(recs) ==
    \A k \in 1..(Len(recs) - 1) : recs[k].Priority <= recs[k + 1].Priority

C21_SortedPermutation ==
    srt.pc = "sorted" =>
        /\ IsPermutation(srt.records, RecordsOf(srt.answer))
        /\ Ascending(srt.records)

C21_Witness ==
    /\ srt.pc = "sorted"
    /\ Len(srt.records) >= 3
    /\ srt.records # RecordsOf(srt.answer)
    /\ srt.answer[1].Pref > srt.answer[2].Pref
    /\ srt.answer[2].Pref > srt.answer[3].Pref

\* C22: records of equal priority leave sortMXRecords in the order in which
\* they entered it.
PositionIn(recs, r) == CHOOSE k \in 1..Len(recs) : recs[k] = r

C24_NoPlaintextInResultCache ==
    \A k \in Hashes, raw \in Inputs :
        /\ k # Normalize(raw)
        /\ resultCache[k].Email # Normalize(raw)

\* C25: every retryable failure of an attempt against one MX, a 4xx reply at
\* RCPT included, is followed by a further attempt against the same MX until
\* MaxRetries attempts have been made, and no MX sees more than MaxRetries
\* attempts within one verification.
C25_RetryableFailuresRetried ==
    [][\A c \in Callers :
          /\ g[c].attempt < MaxRetries
          /\ (/\ g[c].pc = "exchange"
              /\ g'[c].mxResult.SMTPCode \in 400..499
              /\ g[c].attempt < MaxRetries - 1)
             => (g'[c].pc = "backoff" /\ g'[c].mxIdx = g[c].mxIdx)]_vars

\* C26: a 5xx reply at RCPT is terminal: once an MX has answered RCPT with a
\* 5xx code, the verification opens no further session and goes on to return
\* its verdict.
C26_RcptRejectionTerminal ==
    [][\A c \in Callers :
          /\ g'[c].mxResult.SMTPCode \in 500..599 => g'[c].pc = "cache_set"
          /\ g[c].mxResult.SMTPCode \in 500..599
                 => (g'[c].pc \in {"cache_set", "done"} /\ g'[c].conn = NoConn)]_vars

C26_Witness ==
    \E c \in Callers :
        /\ g[c].pc = "done"
        /\ g[c].result.SMTPCode = 554
        /\ g[c].result.MXHost = sortMXRecords(RecordsOf(DNSAnswer))[1].Exchange
        /\ h[c].smtp = "reply"

\* C27: the delay before retry k is base * factor^(k-1): the base backoff
\* before the first retry, and factor times the previous delay after that.
RECURSIVE Power(_, _)
Power(b, n) == IF n = 0 THEN 1 ELSE b * Power(b, n - 1)

C27_ExponentialBackoff ==
    [][\A c \in Callers :
          (g[c].pc # "backoff" /\ g'[c].pc = "backoff")
          => g'[c].wait = RetryBackoff * Power(RetryBackoffFactor, g'[c].attempt)]_vars

\* C28: every SMTP session opened during a verification (first attempt, retry
\* or catch-all probe) is preceded by its own passage through the rate gate:
\* a connection is only opened by the dial that directly follows
\* waitForRateLimit.
C28_EverySessionGated ==
    [][\A c \in Callers :
          (g[c].conn = NoConn /\ g'[c].conn # NoConn)
          => (g[c].pc = "dial" /\ g[c].attempt = 0)]_vars

\* C29: a catch-all probe answered with a 4xx code, or not answered at all,
\* is inconclusive: when every probe of a detection is inconclusive, no
\* negative judgement is recorded for the domain.
Inconclusive(code) == code = 0 \/ code \in 400..499

C29_InconclusiveProbes ==
    (/\ det.pc = "judged"
     /\ \A k \in 1..Len(det.replies) : Inconclusive(det.replies[k]))
    => det.recorded # "0"

\* C30: every SMTP session that got past connection setup ends with QUIT
\* sent before the connection is closed, whether it succeeded at RCPT or
\* failed at the banner, EHLO, STARTTLS or MAIL FROM.
C30_QuitAlwaysSent ==
    ses.closed =>
        /\ ses.sent # <<>>
        /\ ses.sent[Len(ses.sent)] = "QUIT"

\* C31: within one SMTP session the commands are issued in the order EHLO
\* (HELO where EHLO is refused), optional STARTTLS (with the renewed EHLO of
\* an upgraded session), MAIL FROM, RCPT TO, QUIT, each at most once and each
\* only after the previous step was accepted; DATA is never issued.
IsPrefix(a, b) == Len(a) <= Len(b) /\ a = SubSeq(b, 1, Len(a))

CommandOrders ==
    {hello \o starttls \o <<"MAIL FROM", "RCPT TO", "QUIT">> :
        hello \in {<<"EHLO">>, <<"EHLO", "HELO">>},
        starttls \in {<<>>, <<"STARTTLS">>, <<"STARTTLS", "EHLO">>}}

C31_CommandOrder ==
    /\ \E order \in CommandOrders : IsPrefix(ses.sent, order)
    /\ \A k \in 1..Len(ses.sent) : ses.sent[k] # "DATA"
    /\ \A k \in 1..Len(ses.sent) :
           (ses.sent[k] = "MAIL FROM" /\ \E j \in 1..k : ses.sent[j] = "STARTTLS")
           => ses.tls = "on"

\* C32: after a Verify call that completed an SMTP verification (an MX
\* answered RCPT) with its context still live and Redis reachable, the Result
\* Cache holds the verdict under the fingerprint and the domain's metadata
\* has been updated: its catch-all status is recorded.
C32_VerdictAndMetadataWritten ==
    \A c \in Callers :
        (Done(c) /\ h[c].smtp = "reply" /\ ~g[c].ctxDone /\ redisUp)
        => /\ resultCache[g[c].emailHash] = Marshal(g[c].result)
           /\ catchAllCache[g[c].domain] # ""

\* C33: with Redis unreachable Verify returns the status, reason and
\* confidence it returns with Redis reachable and empty, given the same
\* answers of DNS and of the SMTP peers: failed reads count as misses and
\* failed writes do not change the verdict.
C33_RedisUnreachableSameVerdict ==
    (obs.mode = "replay" /\ ~obs.overrun /\ Done(Reachable))
    => /\ g[Reachable].err = "nil"
       /\ g[Reachable].result.Status = g[Unreachable].result.Status
       /\ g[Reachable].result.Reason = g[Unreachable].result.Reason
       /\ g[Reachable].result.Confidence = g[Unreachable].result.Confidence

\* C34: no verdict is written to the Result Cache before catch-all
\* refinement: the Result Cache is written only by cacheResult, when no probe
\* of the call is outstanding, and the verdict written for an address whose
\* RCPT was accepted and whose domain was then judged catch-all is the
\* refined one.
C34_RefinedBeforeCached ==
    [][\A c \in Callers :
          LET key == g[c].emailHash
          IN  (key \in Hashes /\ resultCache'[key] # resultCache[key])
              => /\ g[c].pc = "cache_set"
                 /\ g[c].conn = NoConn
                 /\ g[c].mxResult.IsCatchAll
                        => /\ resultCache'[key].Status = StatusCatchAll
                           /\ resultCache'[key].IsCatchAll]_vars

\* C35: isValidEmailSyntax accepts an input only if it has exactly one "@",
\* at most 254 characters, a non-empty local-part, a domain of at least two
\* labels with no consecutive dots, labels that begin and end with an
\* alphanumeric, and a TLD of at least two letters.
Alphanumerics == Letters \cup Digits

AddressInvariants(s) ==
    /\ Cardinality(AtPositions(s)) = 1
    /\ Len(s) <= 254
    /\ LET at == CHOOSE k \in AtPositions(s) : TRUE
           dom == SubSeq(s, at + 1, Len(s))
           dots == {k \in 1..Len(dom) : dom[k] = "."}
           firsts == {1} \cup {k + 1 : k \in dots}
           lasts == {Len(dom)} \cup {k - 1 : k \in dots}
       IN  /\ at > 1
           /\ dots # {}
           /\ \A k \in firsts \cup lasts :
                  k \in 1..Len(dom) /\ dom[k] \in Alphanumerics
           /\ \A last \in dots :
                  (\A k \in dots : k <= last)
                  => /\ Len(dom) - last >= 2
                     /\ AllIn(dom, last + 1, Len(dom), Letters)

C35_SyntaxInvariants ==
    (syn.pc = "checked" /\ syn.valid) => AddressInvariants(syn.email)

\* C36: a /v1/validate request with skip_cache = true is never answered with
\* a verdict read from the Result Cache.
C36_SkipCacheHonoured ==
    \A c \in Callers :
        (req[c].pc \in {"called", "answered"} /\ req[c].skipCache) => ~req[c].fromCache

C38_VerifySMTPSettles ==
    \A d \in NodeDomains : \A k \in 1..Len(node.domainQueues[d]) :
        LET task == node.domainQueues[d][k]
        IN  (task.kind \in {"probe", "target"} /\ task.socket = "closed")
            => task.st = "fulfilled"

\* C39: the calls of smartVerify of one batch send at most one catch-all
\* probe to a domain.
C39_OneProbePerDomain ==
    \A d \in NodeDomains : node.probes[d] <= 1

\* C40: whatever the user starts, stops, resumes or starts afresh, the count
\* of processed addresses the UI shows is never above their total.
C40_ProgressWithinTotal ==
    ui.progress.current <= ui.progress.total

=============================================================================
